---- MODULE Spec2Model ----
(***************************************************************************)
(* Stable-fluid simulation (React Three Fiber): the configuration store,   *)
(* the Leva control panel, the error boundary of the page and the frame    *)
(* pipeline of FluidSimulation.                                            *)
(*                                                                         *)
(* Units.  resolution is kept in tenths (4 is 0.4, the panel's step is     *)
(* 0.1) and dt in thousandths (14 is 0.014, the panel's step is 0.001), so *)
(* that every product the code forms is an exact integer.  A render        *)
(* target's width and height are kept in tenths of a texel: the code       *)
(* passes screenWidth * resolution unrounded, and Texels() is the whole    *)
(* number of texels the device allocates for it.                           *)
(***************************************************************************)
EXTENDS Integers, Sequences, FiniteSets, TLC

VARIABLES
    store,        \* useFluidStore: the nine parameters
    hasError,     \* ErrorBoundary.state.hasError
    error,        \* ErrorBoundary.state.error ("none" when undefined)
    rendered,     \* what ErrorBoundary.render() returned last
    size,         \* useThree().size of the canvas, <<width, height>>
    mounted,      \* FluidSimulation is mounted (its useState/useMemo ran)
    screenWidth,  \* useState(size.width)
    screenHeight, \* useState(size.height)
    fbo,          \* the render targets: name -> [width, height, data]
    cur,          \* which half of the viscous and pressure pairs is current
    props,        \* the parameter values bound at the last render
    pc,           \* the next stage of the frame in flight, or "idle"
    frame,        \* number of frames started
    pointer,      \* the pointer moved since the last Force pass
    frameStart,   \* observer: store, size, fbo and cur when the frame began
    executed,     \* observer: the stages run so far in this frame
    used,         \* observer: the parameter set each of them ran with
    passes,       \* observer: the passes run so far in this frame
    log,          \* observer: the same passes, in the order they ran
    lastOut,      \* observer: the buffer each solve wrote last, and its content
    stale,        \* observer: one of them ran after the store had changed
    outcome,      \* observer: how the last frame ended
    lastSet,      \* observer: the field and value of the last setter call
    roundTrip,    \* observer: progress of a change of resolution 0.4, 1.0, 0.4
    tripStart,    \* observer: the render targets when that change began
    nsets,        \* setter calls so far
    nresizes      \* viewport changes so far

vars == <<store, hasError, error, rendered, size, mounted, screenWidth,
          screenHeight, fbo, cur, props, pc, frame, pointer, frameStart,
          executed, used, stale, passes, log, lastOut, outcome, lastSet,
          roundTrip, tripStart, nsets, nresizes>>

simVars == <<mounted, screenWidth, screenHeight, fbo, cur, props, pc, frame,
             pointer, frameStart, executed, used, stale, passes, log, lastOut,
             outcome>>

boundaryVars == <<hasError, error, rendered>>

----------------------------------------------------------------------------
(* Bounds of the exploration *)

MaxSets == 2
MaxResizes == 1
MaxFrames == 2

----------------------------------------------------------------------------
(* useFluidStore: initial values *)

DefaultResolution == 4
DefaultDt == 14
DefaultMouseForce == 20
DefaultCursorSize == 100
DefaultViscosity == 30
DefaultPoissonIterations == 32
DefaultViscousIterations == 32

InitialStore ==
    [resolution |-> DefaultResolution,
     dt |-> DefaultDt,
     isBFECC |-> TRUE,
     mouseForce |-> DefaultMouseForce,
     cursorSize |-> DefaultCursorSize,
     viscosity |-> DefaultViscosity,
     poissonIterations |-> DefaultPoissonIterations,
     viscousIterations |-> DefaultViscousIterations,
     isBounce |-> TRUE]

NumericFields ==
    {"resolution", "dt", "mouseForce", "cursorSize", "viscosity",
     "poissonIterations", "viscousIterations"}

BooleanFields == {"isBFECC", "isBounce"}

(* The arguments the setters are called with: in range, on the edges of    *)
(* the range and outside it.                                               *)
ResolutionArgs == {0, 4, 10}
DtArgs == {200}
MouseForceArgs == {0}
CursorSizeArgs == {5}
ViscosityArgs == {101}
IterationArgs == {0, 1}
BooleanArgs == {FALSE}

ArgsOf(field) ==
    CASE field = "resolution" -> ResolutionArgs
      [] field = "dt" -> DtArgs
      [] field = "mouseForce" -> MouseForceArgs
      [] field = "cursorSize" -> CursorSizeArgs
      [] field = "viscosity" -> ViscosityArgs
      [] field = "poissonIterations" -> IterationArgs
      [] field = "viscousIterations" -> IterationArgs
      [] OTHER -> BooleanArgs

NoSet == [field |-> "", value |-> 0]

(* Observer of a change of resolution from 0.4 to 1.0 and back: 1 after    *)
(* the first change, 2 after the second, 3 once the next frame has begun   *)
(* and until its first stage has run; 0 otherwise.                         *)
Trip(phase, from, to) ==
    IF from = 4 /\ to = 10 THEN 1
    ELSE IF phase = 1 /\ from = 10 /\ to = 4 THEN 2
    ELSE IF phase \in {1, 2} /\ from = to THEN phase
    ELSE 0

TripAtFrame(phase) == IF phase = 2 THEN 3 ELSE phase

TripAtStage(phase) == IF phase = 3 THEN 0 ELSE phase

(* A setter that stores its argument under the name of its neighbour *)
SetFieldMisnamed(s, field, value) ==
    IF field = "poissonIterations" THEN [s EXCEPT !.viscousIterations = value]
    ELSE [s EXCEPT ![field] = value]

(* set({ field }): zustand merges the one given field into the state *)
SetField(s, field, value) == [s EXCEPT ![field] = value]

(* A setter whose set() replaces the state instead of merging into it *)
SetterReplacing(field, value) ==
    /\ store' = SetField(InitialStore, field, value)
    /\ nsets' = nsets + 1
    /\ lastSet' = [field |-> field, value |-> value]
    /\ roundTrip' = IF field = "resolution"
                    THEN Trip(roundTrip, store.resolution, value) ELSE roundTrip
    /\ tripStart' = IF field = "resolution" /\ roundTrip' = 1 /\ roundTrip # 1
                    THEN fbo ELSE tripStart
    /\ UNCHANGED <<simVars, boundaryVars, size, nresizes>>

Setter(field, value) ==
    /\ store' = SetField(store, field, value)
    /\ nsets' = nsets + 1
    /\ lastSet' = [field |-> field, value |-> value]
    /\ roundTrip' = IF field = "resolution" THEN Trip(roundTrip, store.resolution, value)
                    ELSE roundTrip
    /\ tripStart' = IF field = "resolution" /\ roundTrip' = 1 /\ roundTrip # 1
                    THEN fbo ELSE tripStart
    /\ UNCHANGED <<simVars, boundaryVars, size, nresizes>>

setResolution ==
    /\ nsets < MaxSets
    /\ \E v \in ResolutionArgs : Setter("resolution", v)
setDt ==
    /\ nsets < MaxSets
    /\ \E v \in DtArgs : Setter("dt", v)
setIsBFECC ==
    /\ nsets < MaxSets
    /\ \E v \in BooleanArgs : Setter("isBFECC", v)
setMouseForce ==
    /\ nsets < MaxSets
    /\ \E v \in MouseForceArgs : Setter("mouseForce", v)
setCursorSize ==
    /\ nsets < MaxSets
    /\ \E v \in CursorSizeArgs : Setter("cursorSize", v)
setViscosity ==
    /\ nsets < MaxSets
    /\ \E v \in ViscosityArgs : Setter("viscosity", v)
setPoissonIterations ==
    /\ nsets < MaxSets
    /\ \E v \in IterationArgs : Setter("poissonIterations", v)
setViscousIterations ==
    /\ nsets < MaxSets
    /\ \E v \in IterationArgs : Setter("viscousIterations", v)
setIsBounce ==
    /\ nsets < MaxSets
    /\ \E v \in BooleanArgs : Setter("isBounce", v)

----------------------------------------------------------------------------
(* ControlPanel: the Leva inputs and their ranges *)

ResolutionMin == 1
ResolutionMax == 10
DtMin == 1
DtMax == 100
MouseForceMin == 0
MouseForceMax == 100
CursorSizeMin == 10
CursorSizeMax == 500
ViscosityMin == 0
ViscosityMax == 100
IterationsMin == 1
IterationsMax == 100

MinOf(field) ==
    CASE field = "resolution" -> ResolutionMin
      [] field = "dt" -> DtMin
      [] field = "mouseForce" -> MouseForceMin
      [] field = "cursorSize" -> CursorSizeMin
      [] field = "viscosity" -> ViscosityMin
      [] OTHER -> IterationsMin

MaxOf(field) ==
    CASE field = "resolution" -> ResolutionMax
      [] field = "dt" -> DtMax
      [] field = "mouseForce" -> MouseForceMax
      [] field = "cursorSize" -> CursorSizeMax
      [] field = "viscosity" -> ViscosityMax
      [] OTHER -> IterationsMax

Clamp(v, lo, hi) == IF v < lo THEN lo ELSE IF v > hi THEN hi ELSE v

(* A number typed into a Leva input with min and max is brought into the   *)
(* range before onChange is called; a checkbox passes its value as is.     *)
LevaValue(field, v) ==
    IF field \in NumericFields THEN Clamp(v, MinOf(field), MaxOf(field)) ELSE v

(* onChange: value => setX(value), fired while the panel is rendered *)
ControlPanelChange ==
    /\ rendered = "children"
    /\ nsets < MaxSets
    /\ \E field \in NumericFields \cup BooleanFields :
         \E v \in ArgsOf(field) : Setter(field, LevaValue(field, v))

----------------------------------------------------------------------------
(* ErrorBoundary *)

Errors == {"allocation failed"}

(* static getDerivedStateFromError(error) *)
getDerivedStateFromError(e) == [hasError |-> TRUE, error |-> e]

(* A render() that does not look at the state *)
renderChildrenAlways(state) == "children"

(* render() *)
render(state) == IF state.hasError THEN "fallback" ELSE "children"

BoundaryInit ==
    /\ hasError = FALSE
    /\ error = "none"
    /\ rendered = render([hasError |-> FALSE, error |-> "none"])

(* An error thrown while a child renders: React stores the derived state   *)
(* and renders the boundary again.                                         *)
Catch(e) ==
    LET st == getDerivedStateFromError(e) IN
    /\ hasError' = st.hasError
    /\ error' = st.error
    /\ rendered' = render(st)

----------------------------------------------------------------------------
(* FluidSimulation: render targets *)

(* The sizes the canvas takes: the window the page is opened in, and a     *)
(* window so small that the grid at resolution 0.4 has no texel.           *)
InitialViewport == <<20, 10>>

Viewports == {InitialViewport, <<2, 2>>}

VelocityBuffers == {"fbo_vel_0", "fbo_vel_1"}

(* The pressure solve handed the targets of the viscous solve *)
PairShared(name) == <<"fbo_viscous_0", "fbo_viscous_1">>

Pair(name) ==
    IF name = "viscous" THEN <<"fbo_viscous_0", "fbo_viscous_1">>
    ELSE <<"fbo_pressure_0", "fbo_pressure_1">>

PairNames == {"viscous", "pressure"}

Buffers ==
    VelocityBuffers \cup {"fbo_divergence"}
        \cup {Pair(n)[i] : n \in PairNames, i \in 1..2}

(* new THREE.WebGLRenderTarget(screenWidth * resolution,                   *)
(*                             screenHeight * resolution, FBOSettings):    *)
(* the products are passed as they are, there is no rounding and no test   *)
(* for an empty target.  A new target holds zeros.                         *)
NewTarget(w, h, resolution) ==
    [width |-> w * resolution, height |-> h * resolution, data |-> 0]

(* whole texels of a dimension kept in tenths *)
Texels(tenths) == tenths \div 10

Other(i) == 3 - i

----------------------------------------------------------------------------
(* FluidSimulation: the passes of one frame *)

(* The passes with Divergence mounted before the viscosity pass *)
StageOrderDivergenceFirst ==
    <<"Advection", "ExternalForce", "Divergence", "Viscous", "Poisson",
      "Pressure", "Color">>

StageOrder ==
    <<"Advection", "ExternalForce", "Viscous", "Divergence", "Poisson",
      "Pressure", "Color">>

Stages == {StageOrder[i] : i \in 1..Len(StageOrder)}

IndexOf(stage) == CHOOSE i \in 1..Len(StageOrder) : StageOrder[i] = stage

NextStage(stage) ==
    IF IndexOf(stage) = Len(StageOrder) THEN "idle"
    ELSE StageOrder[IndexOf(stage) + 1]

(* A pass that reads the store when it runs *)
StagePropsLive == store

(* The parameter values a pass runs with: the props it was rendered with *)
StageParams == props

Pass(stage, reads, writes) == [stage |-> stage, reads |-> reads, writes |-> writes]

(* Advection writing the target it reads *)
AdvectionInPlace == <<Pass("Advection", {"fbo_vel_0"}, "fbo_vel_0")>>

(* <AdvectionSolveProgram src={fbo_vel_0} dst={fbo_vel_1} /> *)
AdvectionPasses == <<Pass("Advection", {"fbo_vel_0"}, "fbo_vel_1")>>

(* <ExternalForceProgram dst={fbo_vel_1} />: the impulse is added to what  *)
(* the target holds, so the target is also the input.                      *)
ExternalForcePasses == <<Pass("ExternalForce", {"fbo_vel_1"}, "fbo_vel_1")>>

(* n Jacobi passes over a pair: each reads the current half (and the       *)
(* fixed inputs) and writes the other half, which then becomes current.    *)
RECURSIVE JacobiPasses(_, _, _, _, _)
JacobiPasses(stage, n, pair, c, fixed) ==
    IF n <= 0 THEN <<>>
    ELSE <<Pass(stage, fixed \cup {Pair(pair)[c]}, Pair(pair)[Other(c)])>>
            \o JacobiPasses(stage, n - 1, pair, Other(c), fixed)

(* the current half of a pair after n passes *)
CurAfter(c, n) == IF n > 0 /\ n % 2 = 1 THEN Other(c) ELSE c

(* <ViscousSolveProgram src={fbo_vel_1} iterations_viscous=... /> *)
ViscousPasses(p, c) ==
    JacobiPasses("Viscous", p.viscousIterations, "viscous", c["viscous"], {"fbo_vel_1"})

(* <DivergenceSolveProgram />: reads the diffused velocity *)
DivergencePasses(c) ==
    <<Pass("Divergence", {Pair("viscous")[c["viscous"]]}, "fbo_divergence")>>

(* <PoissonSolveProgram iterations_poisson=... /> *)
PoissonPasses(p, c) ==
    JacobiPasses("Poisson", p.poissonIterations, "pressure", c["pressure"],
                 {"fbo_divergence"})

(* <PressureSolveProgram />: velocity minus the pressure gradient, written *)
(* to the target Advection and Color read.                                 *)
PressurePasses(c) ==
    <<Pass("Pressure",
           {Pair("viscous")[c["viscous"]], Pair("pressure")[c["pressure"]]},
           "fbo_vel_0")>>

(* The colour pass drawing the target Advection wrote *)
ColorFromVel1 == <<Pass("Color", {"fbo_vel_1"}, "canvas")>>

(* <ColorProgram src={fbo_vel_0} />, drawn to the canvas *)
ColorPasses == <<Pass("Color", {"fbo_vel_0"}, "canvas")>>

(* What a pass leaves in its target: zeros stay zeros unless an impulse is *)
(* injected; anything else is a field produced in frame fr.  A target      *)
(* without texels, and the canvas, take no data.                           *)
Out(f, reads, inject, fr) ==
    IF inject \/ \E b \in reads : f[b].data # 0 THEN fr ELSE 0

RunPass(f, ps, inject, fr) ==
    IF /\ ps.writes \in DOMAIN f
       /\ Texels(f[ps.writes].width) > 0
       /\ Texels(f[ps.writes].height) > 0
    THEN [f EXCEPT ![ps.writes].data = Out(f, ps.reads, inject, fr)]
    ELSE f

RECURSIVE RunPasses(_, _, _, _)
RunPasses(f, seq, inject, fr) ==
    IF seq = <<>> THEN f
    ELSE RunPasses(RunPass(f, Head(seq), inject, fr), Tail(seq), inject, fr)

Range(seq) == {seq[i] : i \in 1..Len(seq)}

----------------------------------------------------------------------------
(* FluidSimulation: mounting *)

(* The solves whose result a later frame starts from *)
Solves == {"Poisson", "Pressure"}

NoOut == [st \in Solves |-> [buffer |-> "", data |-> 0]]

NoFrame == [store |-> InitialStore, size |-> <<0, 0>>, fbo |-> <<>>, cur |-> <<>>]

Unmounted ==
    /\ mounted = FALSE
    /\ screenWidth = 0
    /\ screenHeight = 0
    /\ fbo = <<>>
    /\ cur = [n \in PairNames |-> 1]
    /\ props = InitialStore
    /\ pc = "idle"
    /\ frame = 0
    /\ pointer = FALSE
    /\ frameStart = NoFrame
    /\ executed = <<>>
    /\ used = {}
    /\ stale = FALSE
    /\ passes = {}
    /\ log = <<>>
    /\ lastOut = NoOut
    /\ outcome = "none"

(* The first render: useState(size.width), useState(size.height) and the   *)
(* useMemo(..., []) factories run, once.                                   *)
Mount ==
    /\ ~mounted
    /\ rendered = "children"
    /\ mounted' = TRUE
    /\ screenWidth' = size[1]
    /\ screenHeight' = size[2]
    /\ props' = store
    /\ fbo' = [b \in Buffers |-> NewTarget(size[1], size[2], store.resolution)]
    /\ UNCHANGED <<store, boundaryVars, size, cur, pc, frame, pointer, frameStart,
                   executed, used, stale, passes, log, lastOut, outcome, lastSet,
                   roundTrip, tripStart, nsets, nresizes>>

(* The first render throws (a render target cannot be created): the error  *)
(* reaches the ErrorBoundary around <Effect /> and <ControlPanel />.       *)
MountFail ==
    /\ ~mounted
    /\ rendered = "children"
    /\ \E e \in Errors : Catch(e)
    /\ UNCHANGED <<store, simVars, size, lastSet, roundTrip, tripStart, nsets, nresizes>>

(* The canvas is resized: useThree().size changes and FluidSimulation      *)
(* renders again; screenWidth, screenHeight and the memoised targets keep  *)
(* the values of the first render.                                         *)
ViewportResize ==
    /\ pc = "idle"
    /\ nresizes < MaxResizes
    /\ \E v \in Viewports \ {size} : size' = v
    /\ nresizes' = nresizes + 1
    /\ UNCHANGED <<store, simVars, boundaryVars, lastSet, roundTrip, tripStart, nsets>>

(* The pointer moves over the canvas *)
PointerMove ==
    /\ mounted
    /\ rendered = "children"
    /\ pc = "idle"
    /\ ~pointer
    /\ pointer' = TRUE
    /\ UNCHANGED <<store, boundaryVars, size, mounted, screenWidth, screenHeight,
                   fbo, cur, props, pc, frame, frameStart, executed, used, stale,
                   passes, log, lastOut, outcome, lastSet, roundTrip, tripStart,
                   nsets, nresizes>>

----------------------------------------------------------------------------
(* FluidSimulation: one frame *)

(* The animation frame begins: the passes run with the values of the       *)
(* latest render, which has seen every store update made before it.        *)
BeginFrame ==
    /\ mounted
    /\ rendered = "children"
    /\ pc = "idle"
    /\ frame < MaxFrames
    /\ frame' = frame + 1
    /\ props' = store
    /\ pc' = StageOrder[1]
    /\ frameStart' = [store |-> store, size |-> size, fbo |-> fbo, cur |-> cur]
    /\ executed' = <<>>
    /\ used' = {}
    /\ stale' = FALSE
    /\ passes' = {}
    /\ log' = <<>>
    /\ outcome' = "running"
    /\ roundTrip' = TripAtFrame(roundTrip)
    /\ UNCHANGED <<store, boundaryVars, size, mounted, screenWidth, screenHeight,
                   fbo, cur, pointer, lastOut, lastSet, tripStart, nsets, nresizes>>

(* A stage runs all its passes and hands over to the next one *)
RunStage(stage, seq, inject, newCur) ==
    /\ mounted
    /\ rendered = "children"
    /\ pc = stage
    /\ fbo' = RunPasses(fbo, seq, inject, frame)
    /\ cur' = newCur
    /\ executed' = Append(executed, stage)
    /\ used' = used \cup {StageParams}
    /\ stale' = (stale \/ store # frameStart.store)
    /\ passes' = passes \cup Range(seq)
    /\ log' = log \o seq
    /\ lastOut' = IF stage \in Solves /\ seq # <<>>
                  THEN [lastOut EXCEPT ![stage] =
                           [buffer |-> seq[Len(seq)].writes,
                            data |-> fbo'[seq[Len(seq)].writes].data]]
                  ELSE lastOut
    /\ pc' = NextStage(stage)
    /\ outcome' = IF NextStage(stage) = "idle" THEN "completed" ELSE outcome
    /\ roundTrip' = TripAtStage(roundTrip)
    /\ UNCHANGED <<store, boundaryVars, size, mounted, screenWidth, screenHeight,
                   props, frame, frameStart, lastSet, tripStart, nsets, nresizes>>

Advection ==
    /\ RunStage("Advection", AdvectionPasses, FALSE, cur)
    /\ UNCHANGED pointer

ExternalForce ==
    /\ RunStage("ExternalForce", ExternalForcePasses,
                pointer /\ StageParams.mouseForce # 0, cur)
    /\ pointer' = FALSE

(* The viscosity pass given the iteration count of the Poisson pass *)
ViscousWithPoissonCount ==
    /\ RunStage("Viscous",
                ViscousPasses([StageParams EXCEPT
                                  !.viscousIterations = StageParams.poissonIterations], cur),
                FALSE,
                [cur EXCEPT !["viscous"] = CurAfter(@, StageParams.poissonIterations)])
    /\ UNCHANGED pointer

Viscous ==
    /\ RunStage("Viscous", ViscousPasses(StageParams, cur), FALSE,
                [cur EXCEPT !["viscous"] = CurAfter(@, StageParams.viscousIterations)])
    /\ UNCHANGED pointer

Divergence ==
    /\ RunStage("Divergence", DivergencePasses(cur), FALSE, cur)
    /\ UNCHANGED pointer

Poisson ==
    /\ RunStage("Poisson", PoissonPasses(StageParams, cur), FALSE,
                [cur EXCEPT !["pressure"] = CurAfter(@, StageParams.poissonIterations)])
    /\ UNCHANGED pointer

Pressure ==
    /\ RunStage("Pressure", PressurePasses(cur), FALSE, cur)
    /\ UNCHANGED pointer

Color ==
    /\ RunStage("Color", ColorPasses, FALSE, cur)
    /\ UNCHANGED pointer

(* A stage throws (a device error) before it has written anything: the     *)
(* rest of the frame does not run; nothing that earlier stages of the      *)
(* frame wrote is undone.                                                  *)
StageFail ==
    /\ mounted
    /\ rendered = "children"
    /\ pc # "idle"
    /\ pc' = "idle"
    /\ outcome' = "failed"
    /\ roundTrip' = TripAtStage(roundTrip)
    /\ UNCHANGED <<store, boundaryVars, size, mounted, screenWidth, screenHeight,
                   fbo, cur, props, frame, pointer, frameStart, executed, used, stale,
                   passes, log, lastOut, lastSet, tripStart, nsets, nresizes>>

----------------------------------------------------------------------------
(* The page *)

Init ==
    /\ size = InitialViewport
    /\ store = InitialStore
    /\ BoundaryInit
    /\ Unmounted
    /\ lastSet = NoSet
    /\ roundTrip = 0
    /\ tripStart = <<>>
    /\ nsets = 0
    /\ nresizes = 0

(* onClick={() => window.location.reload()}: the page is loaded again, in  *)
(* the same window.                                                        *)
Reload ==
    /\ rendered = "fallback"
    /\ store' = InitialStore
    /\ hasError' = FALSE
    /\ error' = "none"
    /\ rendered' = render([hasError |-> FALSE, error |-> "none"])
    /\ lastSet' = NoSet
    /\ roundTrip' = 0
    /\ tripStart' = <<>>
    /\ nsets' = 0
    /\ nresizes' = 0
    /\ UNCHANGED <<size, simVars>>

Frame ==
    \/ BeginFrame
    \/ Advection
    \/ ExternalForce
    \/ Viscous
    \/ Divergence
    \/ Poisson
    \/ Pressure
    \/ Color

Setters ==
    \/ setResolution
    \/ setDt
    \/ setIsBFECC
    \/ setMouseForce
    \/ setCursorSize
    \/ setViscosity
    \/ setPoissonIterations
    \/ setViscousIterations
    \/ setIsBounce
    \/ ControlPanelChange

Next ==
    \/ Setters
    \/ Mount
    \/ MountFail
    \/ ViewportResize
    \/ PointerMove
    \/ Frame
    \/ StageFail
    \/ Reload

Spec == Init /\ [][Next]_vars

(* The configuration and the frames that read it *)
NextParams == Setters \/ Mount \/ Frame

SpecParams == Init /\ [][NextParams]_vars

(* The pipeline: pointer input, iteration counts, failing stages *)
NextPipeline ==
    \/ setPoissonIterations
    \/ setViscousIterations
    \/ Mount
    \/ PointerMove
    \/ Frame
    \/ StageFail

SpecPipeline == Init /\ [][NextPipeline]_vars

(* Grid size: the viewport, the resolution and the render targets *)
NextResize ==
    \/ setResolution
    \/ ViewportResize
    \/ Mount
    \/ PointerMove
    \/ Frame

SpecResize == Init /\ [][NextResize]_vars

(* The page: errors caught by the boundary, and reloading *)
NextPage ==
    \/ setResolution
    \/ Mount
    \/ MountFail
    \/ PointerMove
    \/ Frame
    \/ StageFail
    \/ Reload

SpecPage == Init /\ [][NextPage]_vars

----------------------------------------------------------------------------
(* Properties *)

Allocated == mounted /\ DOMAIN fbo = Buffers

(* The ranges of the configuration interface (resolution in tenths, dt in  *)
(* thousandths).                                                           *)
InRange(p) ==
    /\ p.resolution > 0 /\ p.resolution <= ResolutionMax
    /\ p.dt >= DtMin /\ p.dt <= DtMax
    /\ p.mouseForce >= MouseForceMin /\ p.mouseForce <= MouseForceMax
    /\ p.cursorSize >= CursorSizeMin /\ p.cursorSize <= CursorSizeMax
    /\ p.viscosity >= ViscosityMin /\ p.viscosity <= ViscosityMax
    /\ p.poissonIterations >= IterationsMin /\ p.poissonIterations <= IterationsMax
    /\ p.viscousIterations >= IterationsMin /\ p.viscousIterations <= IterationsMax

C2_Order ==
    <<"Advection", "ExternalForce", "Viscous", "Divergence", "Poisson",
      "Pressure", "Color">>

C2_StageOrder ==
    /\ Len(executed) <= Len(C2_Order)
    /\ \A i \in 1..Len(executed) : executed[i] = C2_Order[i]
    /\ pc # "idle" => Len(executed) < Len(C2_Order) /\ pc = C2_Order[Len(executed) + 1]
    /\ outcome = "completed" => executed = C2_Order
    /\ \A ps \in passes : \E i \in 1..Len(executed) : executed[i] = ps.stage

C2_Witness == outcome = "completed" /\ frame = MaxFrames

GridOf(sz, resolution) == <<(sz[1] * resolution) \div 10, (sz[2] * resolution) \div 10>>

TexelsOf(target) == <<Texels(target.width), Texels(target.height)>>

(* C4: while a frame runs, every buffer has the dimensions of the grid     *)
(* derived from the viewport and the (allowed) resolution the frame began  *)
(* with.                                                                   *)
C4_BuffersMatchGrid ==
    (pc # "idle" /\ InRange(frameStart.store)) =>
        \A b \in DOMAIN fbo :
            TexelsOf(fbo[b]) = GridOf(frameStart.size, frameStart.store.resolution)

Authoritative(f, c) ==
    [velocity |-> f["fbo_vel_0"].data,
     pressure |-> f[Pair("pressure")[c["pressure"]]].data]

(* C6: after a frame in which a stage failed, the current velocity and     *)
(* pressure hold what they held when the frame began.                      *)
C6_FailedFrameDiscarded ==
    outcome = "failed" =>
        Authoritative(fbo, cur) = Authoritative(frameStart.fbo, frameStart.cur)

(* C7: an error thrown while the simulation renders reaches the boundary;  *)
(* from then on hasError stays true, the fallback with the reload button   *)
(* is what is rendered, the simulation is neither mounted nor run, and     *)
(* only reloading the page ends that.                                      *)
PageLoaded ==
    /\ ~hasError
    /\ error = "none"
    /\ rendered = "children"
    /\ store = InitialStore
    /\ nsets = 0
    /\ nresizes = 0

C8_RoundTripZero ==
    (/\ roundTrip = 3
     /\ Allocated
     /\ DOMAIN tripStart = Buffers
     /\ \A b \in Buffers : Texels(tripStart[b].width) >= 1 /\ Texels(tripStart[b].height) >= 1) =>
        \A b \in Buffers :
            /\ TexelsOf(fbo[b]) = TexelsOf(tripStart[b])
            /\ fbo[b].data = 0

(* C9: a grid that would have no texel is never allocated: buffers         *)
(* allocated from a viewport and a resolution that are both positive are   *)
(* at least one texel wide and high.                                       *)
C9_GridAtLeastOne ==
    Allocated =>
        \A b \in Buffers :
            (fbo[b].width > 0 /\ fbo[b].height > 0) =>
                (Texels(fbo[b].width) >= 1 /\ Texels(fbo[b].height) >= 1)

Orchestrator ==
    IF ~mounted THEN "Uninitialized"
    ELSE IF pc # "idle" THEN "Running"
    ELSE IF \E b \in DOMAIN fbo : TexelsOf(fbo[b]) # GridOf(size, store.resolution)
         THEN "Resizing"
    ELSE "Ready"

ValidGrid(g) == g[1] >= 1 /\ g[2] >= 1

GridChange == size' # size \/ store'.resolution # store.resolution

(* C11: for allowed parameter values, and a viewport and targets that have *)
(* texels, the orchestrator only goes from                                 *)
(* Uninitialized to Ready, from Ready to Running and back, into Resizing   *)
(* when the viewport or the resolution changes and from Resizing to Ready; *)
(* a stage runs only in Running, and a frame is started only from Ready,   *)
(* never from Uninitialized or Resizing.                                   *)
C11_Transitions ==
    {<<"Uninitialized", "Ready">>, <<"Ready", "Running">>, <<"Running", "Ready">>,
     <<"Resizing", "Ready">>}

C11_Orchestrator ==
    [][(/\ InRange(store) /\ InRange(store')
        /\ ValidGrid(GridOf(size, store.resolution))
        /\ \A b \in DOMAIN fbo : ValidGrid(TexelsOf(fbo[b]))) =>
          /\ \/ Orchestrator' = Orchestrator
             \/ <<Orchestrator, Orchestrator'>> \in C11_Transitions
             \/ Orchestrator' = "Resizing" /\ GridChange
          /\ log' # log => Orchestrator = "Running"
          /\ frame' = frame + 1 => Orchestrator = "Ready"]_vars

(* C12: a change of resolution that arrives while a frame is in flight     *)
(* ends that frame: once the (allowed) resolution differs from the one the *)
(* frame began with, no pass of that frame runs and the targets the frame  *)
(* was using are neither read nor written again.                           *)
C12_ResizeAbortsFrame ==
    [][(/\ pc # "idle"
        /\ InRange(store)
        /\ store.resolution # frameStart.store.resolution) =>
          /\ log' = log
          /\ fbo' = fbo]_vars

(* The passes of one stage in the frame's log *)
PassesOf(stage) == SelectSeq(log, LAMBDA ps : ps.stage = stage)

C16_SetterOwnParameter ==
    /\ [](nsets > 0 => store[lastSet.field] = lastSet.value)
    /\ [][nsets' = nsets + 1 =>
              /\ lastSet'.field \in DOMAIN store
              /\ store'[lastSet'.field] = lastSet'.value
              /\ \A f \in DOMAIN store \ {lastSet'.field} : store'[f] = store[f]]_vars

C16_Witness ==
    /\ nsets = 2
    /\ lastSet = [field |-> "isBounce", value |-> FALSE]
    /\ store = [InitialStore EXCEPT !.viscosity = 101, !.isBounce = FALSE]

====
